---- MODULE Spec2Model ----
(***************************************************************************)
(* Model of the differential fuzzer of lib-keccak (src/main.rs,            *)
(* src/hashing.rs): the run controller `main`, the worker `fuzz_task` and  *)
(* the two hashing backends `hash_input_tiny` and `hash_input_evm`.        *)
(***************************************************************************)
EXTENDS Integers, Sequences, FiniteSets, TLC

\* ---------------------------------------------------------------- bounds
MaxThreads == 2
MaxDiff == 3
MaxInputBytes == 2

Workers == 1..MaxThreads

\* Byte value drawn by rng.fill (0xab); the buffer starts as 0x00.
ByteVals == {171}

\* The candidates a worker's environment may host: the sponge that resets on
\* squeeze, one whose squeeze always returns 32 zero bytes, and one whose
\* squeeze does not reset the absorbed state.
CandidateKinds == {"correct", "zero", "leaky"}

VARIABLES
    thread_count,     \* Args.thread_count
    diff_count,       \* Args.diff_count
    max_input_bytes,  \* Args.max_input_bytes
    candidate,        \* behaviour of the deployed StatefulSponge code
    code_hex_ok,      \* STATEFUL_SPONGE_BYTECODE is hex-decodable
    main_pc,          \* position of main
    num_hashes,       \* main: diff_count / thread_count
    spawn_i,          \* main: loop variable of the spawn loop
    join_set,         \* JoinSet: tasks spawned and not yet joined
    completed,        \* tasks in the order they completed
    joined,           \* number of completions main has taken with join_next
    main_result,      \* value main returned
    pc,               \* position of each fuzz_task
    iter,             \* fuzz_task: loop variable i
    bytes,            \* fuzz_task: the reused input buffer
    in_len,           \* fuzz_task: length of in_slice
    hash_tiny,        \* fuzz_task: reference digest
    hash_evm,         \* fuzz_task: candidate digest
    evm,              \* fuzz_task: the worker's EVM (deployed code, storage)
    pb,               \* fuzz_task: the progress bar
    task_result,      \* value each fuzz_task returned
    log               \* history of the steps each fuzz_task performed

cfg_vars == <<thread_count, diff_count, max_input_bytes, candidate,
              code_hex_ok>>
main_vars == <<main_pc, num_hashes, spawn_i, join_set, joined, main_result>>
task_vars == <<pc, iter, bytes, in_len, hash_tiny, hash_evm, evm, pb,
               task_result, log>>
vars == <<cfg_vars, main_vars, completed, task_vars>>

\* ------------------------------------------------------- pure functions

\* A share rounded up instead of down.
NumHashesCeil(total, threads) == (total + threads - 1) \div threads

\* u64 integer division of main.rs:51 (the divisor is checked by the caller).
NumHashes(total, threads) == total \div threads

\* Keccak-256 as a collision-free digest of its preimage.
Keccak(input) == [zero |-> FALSE, pre |-> input]

\* [0u8; 32]
ZeroDigest == [zero |-> TRUE, pre |-> <<>>]

HexChars == <<"0", "1", "2", "3", "4", "5", "6", "7",
              "8", "9", "a", "b", "c", "d", "e", "f">>

\* hex::encode: two lower-case digits per byte, high nibble first.
RECURSIVE HexEncode(_)
HexEncode(data) ==
    IF data = <<>> THEN <<>>
    ELSE <<HexChars[(Head(data) \div 16) + 1], HexChars[(Head(data) % 16) + 1]>>
         \o HexEncode(Tail(data))

\* vec![0u8; n]
ZeroVec(n) == [k \in 1..n |-> 0]

\* The whole buffer instead of its first len bytes.
InSliceWhole(buf, len) == buf

\* bytes[0..len]
InSlice(buf, len) == SubSeq(buf, 1, len)

\* rng.fill(in_slice): the first len bytes are overwritten, the rest is kept.
Fill(buf, fresh) ==
    [k \in 1..Len(buf) |-> IF k <= Len(fresh) THEN fresh[k] ELSE buf[k]]

\* A range that includes its upper bound.
InputLengthsInclusive(max) == 0..max

\* gen_range(0..max_input_bytes): the lengths the generator can draw.
InputLengths(max) == 0..(max - 1)

RECURSIVE SeqsOfLen(_)
SeqsOfLen(n) ==
    IF n = 0 THEN {<<>>}
    ELSE {<<b>> \o s : b \in ByteVals, s \in SeqsOfLen(n - 1)}

NoResult == [kind |-> "None"]
OkResult == [kind |-> "Ok"]

\* A report that counts iterations from one.
MismatchErrorOneBased(i, buf, len) ==
    [kind |-> "Mismatch", iteration |-> i + 1, input |-> HexEncode(buf)]

\* A report that also carries the two digests.
MismatchErrorWithDigests(i, buf, len) ==
    [kind |-> "Mismatch", iteration |-> i, input |-> HexEncode(buf),
     reference_digest |-> Keccak(InSlice(buf, len)),
     candidate_digest |-> ZeroDigest]

\* bail!("Hash mismatch at iteration {} - input: {}", i, hex::encode(bytes))
MismatchError(i, buf, len) ==
    [kind |-> "Mismatch", iteration |-> i, input |-> HexEncode(buf)]

\* bail!("Absorb call failed: {r:?}") / bail!("Squeeze call failed: {r:?}")
\* and the errors passed on by `?`
ExecutionError(call, outcome) ==
    [kind |-> "ExecutionFault", call |-> call, outcome |-> outcome]

\* JoinError of a task that panicked
PanicError(msg) == [kind |-> "Panic", msg |-> msg]

\* ----------------------------------------------------------------- Init
Init ==
    /\ thread_count \in 0..MaxThreads
    /\ diff_count \in 0..MaxDiff
    /\ max_input_bytes \in 0..MaxInputBytes
    /\ candidate \in CandidateKinds
    /\ code_hex_ok \in BOOLEAN
    /\ main_pc = "start"
    /\ num_hashes = 0
    /\ spawn_i = 0
    /\ join_set = {}
    /\ completed = <<>>
    /\ joined = 0
    /\ main_result = NoResult
    /\ pc = [w \in Workers |-> "unspawned"]
    /\ iter = [w \in Workers |-> 0]
    /\ bytes = [w \in Workers |-> <<>>]
    /\ in_len = [w \in Workers |-> 0]
    /\ hash_tiny = [w \in Workers |-> ZeroDigest]
    /\ hash_evm = [w \in Workers |-> ZeroDigest]
    /\ evm = [w \in Workers |-> [deployed |-> FALSE, sponge |-> <<>>]]
    /\ pb = [w \in Workers |-> [length |-> 0, pos |-> 0, msg |-> "none"]]
    /\ task_result = [w \in Workers |-> NoResult]
    /\ log = [w \in Workers |-> <<>>]

\* ----------------------------------------------------------------- main

\* main.rs:51  let num_hashes = diff_count / thread_count;
MainComputeShares ==
    /\ main_pc = "start"
    /\ IF thread_count = 0
       THEN /\ main_pc' = "returned"
            /\ main_result' = PanicError("attempt to divide by zero")
            /\ UNCHANGED num_hashes
       ELSE /\ main_pc' = "spawn"
            /\ num_hashes' = NumHashes(diff_count, thread_count)
            /\ UNCHANGED main_result
    /\ UNCHANGED <<cfg_vars, spawn_i, join_set, joined, completed, task_vars>>

\* main.rs:54-60  one turn of the spawn loop
MainSpawn ==
    /\ main_pc = "spawn"
    /\ spawn_i < thread_count
    /\ LET w == spawn_i + 1 IN
        /\ pb' = [pb EXCEPT ![w] = [length |-> num_hashes, pos |-> 0,
                                    msg |-> "Thread"]]
        /\ pc' = [pc EXCEPT ![w] = "spawned"]
        /\ join_set' = join_set \cup {w}
    /\ spawn_i' = spawn_i + 1
    /\ UNCHANGED <<cfg_vars, main_pc, num_hashes, joined, main_result,
                   completed, iter, bytes, in_len, hash_tiny, hash_evm, evm,
                   task_result, log>>

\* main.rs:54  the spawn loop ends
MainSpawnDone ==
    /\ main_pc = "spawn"
    /\ spawn_i >= thread_count
    /\ main_pc' = "join"
    /\ UNCHANGED <<cfg_vars, num_hashes, spawn_i, join_set, joined,
                   main_result, completed, task_vars>>

\* The most recently completed task instead of the oldest one not yet taken.
NextCompletedLatest(done, taken) == done[Len(done)]

\* The next completed task that main has not yet taken, in completion order.
NextCompleted(done, taken) == done[taken + 1]

\* A drop that also stops the tasks that are running.
DropJoinSetAbortAll(set, p) ==
    [w \in Workers |->
        IF w \in set /\ p[w] \notin {"done", "failed", "panicked"}
        THEN "aborted" ELSE p[w]]

\* Drop of the JoinSet when main returns: every task still in the set is
\* aborted.  A task that was never polled is dropped without running; a task
\* that is running has no await point and is not affected.
DropJoinSet(set, p) ==
    [w \in Workers |-> IF w \in set /\ p[w] = "spawned" THEN "aborted" ELSE p[w]]

\* main.rs:62-64  join_next yields a task that returned Ok(Ok(()))
MainJoinOk ==
    /\ main_pc = "join"
    /\ join_set # {}
    /\ joined < Len(completed)
    /\ LET w == NextCompleted(completed, joined) IN
        /\ task_result[w].kind = "Ok"
        /\ join_set' = join_set \ {w}
    /\ joined' = joined + 1
    /\ UNCHANGED <<cfg_vars, main_pc, num_hashes, spawn_i, main_result,
                   completed, task_vars>>

\* main.rs:62-64  join_next yields a failed task: `res??` returns its error
MainJoinErr ==
    /\ main_pc = "join"
    /\ join_set # {}
    /\ joined < Len(completed)
    /\ LET w == NextCompleted(completed, joined) IN
        /\ task_result[w].kind # "Ok"
        /\ main_result' = task_result[w]
        /\ join_set' = join_set \ {w}
        /\ pc' = DropJoinSet(join_set \ {w}, pc)
    /\ joined' = joined + 1
    /\ main_pc' = "returned"
    /\ UNCHANGED <<cfg_vars, num_hashes, spawn_i, completed, iter, bytes,
                   in_len, hash_tiny, hash_evm, evm, pb, task_result, log>>

\* A return as soon as no completed task is waiting to be taken.
MainReturnOkEarly ==
    /\ main_pc = "join"
    /\ joined = Len(completed)
    /\ main_pc' = "returned"
    /\ main_result' = OkResult
    /\ UNCHANGED <<cfg_vars, num_hashes, spawn_i, join_set, joined,
                   completed, task_vars>>

\* main.rs:62,66  join_next yields None: Ok(())
MainReturnOk ==
    /\ main_pc = "join"
    /\ join_set = {}
    /\ main_pc' = "returned"
    /\ main_result' = OkResult
    /\ UNCHANGED <<cfg_vars, num_hashes, spawn_i, join_set, joined,
                   completed, task_vars>>

\* ------------------------------------------------------------ fuzz_task

\* One entry of the history of a task: the step, its iteration, its outcome.
\* A "digest" entry records whether the candidate digest returned by the
\* squeeze call equals the Keccak-256 digest of the input of that iteration.
Event(ev, i, ok) == [ev |-> ev, it |-> i, ok |-> ok]

\* Outcomes of evm.transact_commit() for the absorb call (hashing.rs:29-32):
\* Ok(Success), Ok(Revert) (Ok(Halt) takes the same arm) or Err(EVMError).
AbsorbOutcomes == {"Success", "Revert", "EVMError"}

\* Outcomes of the squeeze call (hashing.rs:37-46): Success with a decodable
\* Output::Call, Success whose call output does not decode as bytes32,
\* Success with Output::Create, Revert (Halt takes the same arm) or
\* Err(EVMError).
SqueezeOutcomes == {"Success", "BadReturn", "Create", "Revert", "EVMError"}

\* An absorb match that also lets a reverted call through.
AbsorbOkLenient(outcome) == outcome \in {"Success", "Revert"}

\* hashing.rs:29-32  the match arm that lets hash_input_evm continue
AbsorbOk(outcome) == outcome = "Success"

\* hashing.rs:37-44  the match arm and the decoding that yield a digest
SqueezeOk(outcome) == outcome = "Success"

\* Storage after a committed absorb(input): the sponge ingests the input.
AbsorbCommit(env, input) == [env EXCEPT !.sponge = env.sponge \o input]

\* Digest returned by a committed squeeze().
SqueezeDigest(kind, env) ==
    IF kind = "zero" THEN ZeroDigest ELSE Keccak(env.sponge)

\* Storage after a committed squeeze(): the sponge resets itself, unless the
\* code leaks its state.
SqueezeCommit(kind, env) ==
    IF kind = "leaky" THEN env ELSE [env EXCEPT !.sponge = <<>>]

\* main.rs:117-132  deploy_contract: hex::decode(..)? returns the error
\* before anything is inserted; otherwise the code is put at the address.
DeployContract(hex_ok) ==
    [deployed |-> hex_ok, sponge |-> <<>>,
     result |-> IF hex_ok THEN "Ok" ELSE "Err"]

\* Outcomes of the absorb call against the environment: a call to an address
\* without code executes nothing and succeeds.
AbsorbOutcomesOf(env) ==
    IF env.deployed THEN AbsorbOutcomes ELSE {"Success", "EVMError"}

\* Outcomes of the squeeze call against the environment: a call to an address
\* without code returns empty output, which does not decode as bytes32.
SqueezeOutcomesOf(env) ==
    IF env.deployed THEN SqueezeOutcomes ELSE {"BadReturn", "EVMError"}

\* The EVM of a task that has not started or has returned.
NoEvm == [deployed |-> FALSE, sponge |-> <<>>]

\* A return that tears down one environment shared by all tasks.
FuzzReturnShared(w, result) ==
    /\ task_result' = [task_result EXCEPT ![w] = result]
    /\ completed' = Append(completed, w)
    /\ iter' = [iter EXCEPT ![w] = 0]
    /\ bytes' = [bytes EXCEPT ![w] = <<>>]
    /\ in_len' = [in_len EXCEPT ![w] = 0]
    /\ hash_tiny' = [hash_tiny EXCEPT ![w] = ZeroDigest]
    /\ hash_evm' = [hash_evm EXCEPT ![w] = ZeroDigest]
    /\ evm' = [v \in Workers |-> NoEvm]

\* fuzz_task returns `result`: the task completes and its locals (i, bytes,
\* in_slice, hash_tiny, hash_evm, evm) are dropped.
FuzzReturn(w, result) ==
    /\ task_result' = [task_result EXCEPT ![w] = result]
    /\ completed' = Append(completed, w)
    /\ iter' = [iter EXCEPT ![w] = 0]
    /\ bytes' = [bytes EXCEPT ![w] = <<>>]
    /\ in_len' = [in_len EXCEPT ![w] = 0]
    /\ hash_tiny' = [hash_tiny EXCEPT ![w] = ZeroDigest]
    /\ hash_evm' = [hash_evm EXCEPT ![w] = ZeroDigest]
    /\ evm' = [evm EXCEPT ![w] = NoEvm]

\* main.rs:73-92  environment, RNG and buffers of a starting task; the
\* Result of deploy_contract (main.rs:75) is not used.
FuzzInit(w) ==
    /\ pc[w] = "spawned"
    /\ evm' = [evm EXCEPT ![w] = [deployed |-> DeployContract(code_hex_ok).deployed,
                                  sponge |-> DeployContract(code_hex_ok).sponge]]
    /\ hash_tiny' = [hash_tiny EXCEPT ![w] = ZeroDigest]
    /\ bytes' = [bytes EXCEPT ![w] = ZeroVec(max_input_bytes)]
    /\ pc' = [pc EXCEPT ![w] = "loop"]
    /\ UNCHANGED <<cfg_vars, main_vars, completed, iter, in_len, hash_evm,
                   pb, task_result, log>>

\* main.rs:94-98  loop test, gen_range(0..max_input_bytes), rng.fill and
\* hash_input_tiny(in_slice, hash_tiny)  (hashing.rs:16-20)
FuzzGenerate(w) ==
    /\ pc[w] = "loop"
    /\ iter[w] < num_hashes
    /\ IF max_input_bytes = 0
       THEN /\ pc' = [pc EXCEPT ![w] = "panicked"]
            /\ FuzzReturn(w, PanicError("cannot sample empty range"))
            /\ UNCHANGED log
       ELSE /\ \E len \in InputLengths(max_input_bytes) :
                 \E fresh \in SeqsOfLen(len) :
                    /\ in_len' = [in_len EXCEPT ![w] = len]
                    /\ bytes' = [bytes EXCEPT ![w] = Fill(bytes[w], fresh)]
                    /\ hash_tiny' = [hash_tiny EXCEPT ![w] = Keccak(fresh)]
            /\ pc' = [pc EXCEPT ![w] = "absorb"]
            /\ log' = [log EXCEPT ![w] = @ \o <<Event("gen", iter[w], TRUE),
                                                Event("tiny", iter[w], TRUE)>>]
            /\ UNCHANGED <<task_result, completed, iter, hash_evm, evm>>
    /\ UNCHANGED <<cfg_vars, main_vars, pb>>

\* main.rs:99, hashing.rs:25-32  the absorb call of hash_input_evm
FuzzAbsorb(w) ==
    /\ pc[w] = "absorb"
    /\ \E outcome \in AbsorbOutcomesOf(evm[w]) :
        /\ log' = [log EXCEPT
                     ![w] = Append(@, Event("absorb", iter[w], outcome = "Success"))]
        /\ IF AbsorbOk(outcome)
           THEN /\ evm' = [evm EXCEPT
                             ![w] = IF outcome = "Success" /\ @.deployed
                                    THEN AbsorbCommit(@, InSlice(bytes[w], in_len[w]))
                                    ELSE @]
                /\ pc' = [pc EXCEPT ![w] = "squeeze"]
                /\ UNCHANGED <<task_result, completed, iter, bytes, in_len,
                               hash_tiny, hash_evm>>
           ELSE /\ pc' = [pc EXCEPT ![w] = "failed"]
                /\ FuzzReturn(w, ExecutionError("absorb", outcome))
    /\ UNCHANGED <<cfg_vars, main_vars, pb>>

\* main.rs:99, hashing.rs:35-46  the squeeze call of hash_input_evm
FuzzSqueeze(w) ==
    /\ pc[w] = "squeeze"
    /\ \E outcome \in SqueezeOutcomesOf(evm[w]) :
        /\ log' = [log EXCEPT
                     ![w] = IF outcome = "Success"
                            THEN @ \o <<Event("squeeze", iter[w], TRUE),
                                        Event("digest", iter[w],
                                              SqueezeDigest(candidate, evm[w])
                                              = Keccak(InSlice(bytes[w], in_len[w])))>>
                            ELSE Append(@, Event("squeeze", iter[w], FALSE))]
        /\ IF SqueezeOk(outcome)
           THEN /\ hash_evm' = [hash_evm EXCEPT
                                  ![w] = SqueezeDigest(candidate, evm[w])]
                /\ evm' = [evm EXCEPT ![w] = SqueezeCommit(candidate, @)]
                /\ pc' = [pc EXCEPT ![w] = "cmp"]
                /\ UNCHANGED <<task_result, completed, iter, bytes, in_len,
                               hash_tiny>>
           ELSE /\ pc' = [pc EXCEPT ![w] = "failed"]
                /\ FuzzReturn(w, ExecutionError("squeeze", outcome))
    /\ UNCHANGED <<cfg_vars, main_vars, pb>>

\* A comparison that starts the next iteration on a fresh environment.
FuzzCompareRedeploy(w) ==
    /\ pc[w] = "cmp"
    /\ log' = [log EXCEPT
                 ![w] = Append(@, Event("cmp", iter[w], hash_tiny[w] = hash_evm[w]))]
    /\ IF hash_tiny[w] # hash_evm[w]
       THEN /\ pc' = [pc EXCEPT ![w] = "failed"]
            /\ FuzzReturn(w, MismatchError(iter[w], bytes[w], in_len[w]))
            /\ UNCHANGED pb
       ELSE /\ pb' = [pb EXCEPT ![w].pos = @ + 1]
            /\ iter' = [iter EXCEPT ![w] = @ + 1]
            /\ pc' = [pc EXCEPT ![w] = "loop"]
            /\ evm' = [evm EXCEPT ![w] = [deployed |-> TRUE, sponge |-> <<>>]]
            /\ UNCHANGED <<task_result, completed, bytes, in_len, hash_tiny,
                           hash_evm>>
    /\ UNCHANGED <<cfg_vars, main_vars>>

\* A comparison step that advances the progress bar before it compares.
FuzzCompareCountsFirst(w) ==
    /\ pc[w] = "cmp"
    /\ log' = [log EXCEPT
                 ![w] = Append(@, Event("cmp", iter[w], hash_tiny[w] = hash_evm[w]))]
    /\ pb' = [pb EXCEPT ![w].pos = @ + 1]
    /\ IF hash_tiny[w] # hash_evm[w]
       THEN /\ pc' = [pc EXCEPT ![w] = "failed"]
            /\ FuzzReturn(w, MismatchError(iter[w], bytes[w], in_len[w]))
       ELSE /\ iter' = [iter EXCEPT ![w] = @ + 1]
            /\ pc' = [pc EXCEPT ![w] = "loop"]
            /\ UNCHANGED <<task_result, completed, bytes, in_len, hash_tiny,
                           hash_evm, evm>>
    /\ UNCHANGED <<cfg_vars, main_vars>>

\* main.rs:101-109  comparison, bail! on a mismatch, pb.inc(1) otherwise
FuzzCompare(w) ==
    /\ pc[w] = "cmp"
    /\ log' = [log EXCEPT
                 ![w] = Append(@, Event("cmp", iter[w], hash_tiny[w] = hash_evm[w]))]
    /\ IF hash_tiny[w] # hash_evm[w]
       THEN /\ pc' = [pc EXCEPT ![w] = "failed"]
            /\ FuzzReturn(w, MismatchError(iter[w], bytes[w], in_len[w]))
            /\ UNCHANGED pb
       ELSE /\ pb' = [pb EXCEPT ![w].pos = @ + 1]
            /\ iter' = [iter EXCEPT ![w] = @ + 1]
            /\ pc' = [pc EXCEPT ![w] = "loop"]
            /\ UNCHANGED <<task_result, completed, bytes, in_len, hash_tiny,
                           hash_evm, evm>>
    /\ UNCHANGED <<cfg_vars, main_vars>>

\* A loop exit that misses the end of the range.
FuzzFinishPastEnd(w) ==
    /\ pc[w] = "loop"
    /\ iter[w] > num_hashes
    /\ pb' = [pb EXCEPT ![w].msg = "DONE"]
    /\ pc' = [pc EXCEPT ![w] = "done"]
    /\ FuzzReturn(w, OkResult)
    /\ log' = [log EXCEPT ![w] = Append(@, Event("done", iter[w], TRUE))]
    /\ UNCHANGED <<cfg_vars, main_vars>>

\* main.rs:94,112-113  the loop ends: pb.finish_with_message("DONE"); Ok(())
FuzzFinish(w) ==
    /\ pc[w] = "loop"
    /\ iter[w] >= num_hashes
    /\ pb' = [pb EXCEPT ![w].msg = "DONE"]
    /\ pc' = [pc EXCEPT ![w] = "done"]
    /\ FuzzReturn(w, OkResult)
    /\ log' = [log EXCEPT ![w] = Append(@, Event("done", iter[w], TRUE))]
    /\ UNCHANGED <<cfg_vars, main_vars>>

\* Any step of fuzz_task w.
FuzzStep(w) ==
    \/ FuzzInit(w)
    \/ FuzzGenerate(w)
    \/ FuzzAbsorb(w)
    \/ FuzzSqueeze(w)
    \/ FuzzCompare(w)
    \/ FuzzFinish(w)

Next ==
    \/ MainComputeShares
    \/ MainSpawn
    \/ MainSpawnDone
    \/ MainJoinOk
    \/ MainJoinErr
    \/ MainReturnOk
    \/ \E w \in Workers : FuzzInit(w)
    \/ \E w \in Workers : FuzzGenerate(w)
    \/ \E w \in Workers : FuzzAbsorb(w)
    \/ \E w \in Workers : FuzzSqueeze(w)
    \/ \E w \in Workers : FuzzCompare(w)
    \/ \E w \in Workers : FuzzFinish(w)

Spec == Init /\ [][Next]_vars

\* Any step of main.
MainStep ==
    \/ MainComputeShares
    \/ MainSpawn
    \/ MainSpawnDone
    \/ MainJoinOk
    \/ MainJoinErr
    \/ MainReturnOk

\* The runtime keeps polling main and every spawned task, and every call a
\* task makes returns: no process that can take a step waits forever.
LiveSpec ==
    /\ Init
    /\ [][Next]_vars
    /\ WF_vars(MainStep)
    /\ \A w \in Workers : WF_vars(FuzzStep(w))

\* ------------------------------------------------------------ properties

\* Number of entries (ev, ok) in the history of task w.
CountEv(w, ev, ok) ==
    Cardinality({k \in DOMAIN log[w] : log[w][k].ev = ev /\ log[w][k].ok = ok})

RECURSIVE SumUpTo(_, _)
SumUpTo(f, n) == IF n = 0 THEN 0 ELSE f[n] + SumUpTo(f, n - 1)

\* Positions of a task that has started and has not returned.
RunningPcs == {"loop", "absorb", "squeeze", "cmp"}

\* Everything a task owns.
TaskState(w) == <<pc[w], iter[w], bytes[w], in_len[w], hash_tiny[w],
                  hash_evm[w], evm[w], pb[w], task_result[w], log[w]>>

MainFailed == main_pc = "returned" /\ main_result.kind \notin {"None", "Ok"}

\* C1: main returns Ok only in a state where each of the thread_count tasks
\* has returned Ok after num_hashes iterations with equal digests; a task
\* that ended with a mismatch, an execution fault or a panic excludes Ok.
C1_SuccessOnlyWhenAllDone ==
    (main_pc = "returned" /\ main_result.kind = "Ok") =>
        /\ thread_count >= 1
        /\ \A w \in 1..thread_count :
              /\ pc[w] = "done"
              /\ task_result[w] = OkResult
              /\ pb[w].pos = num_hashes
              /\ CountEv(w, "cmp", TRUE) = num_hashes
              /\ CountEv(w, "digest", TRUE) = num_hashes
        /\ \A w \in Workers :
              /\ pc[w] \notin {"failed", "panicked", "aborted"}
              /\ CountEv(w, "cmp", FALSE) = 0
              /\ CountEv(w, "absorb", FALSE) = 0
              /\ CountEv(w, "squeeze", FALSE) = 0

C1_Witness ==
    /\ main_pc = "returned"
    /\ main_result.kind = "Ok"
    /\ thread_count = 2
    /\ num_hashes = 1
    /\ candidate = "leaky"

\* C2: at the first iteration whose candidate digest differs from the
\* reference digest, the comparison fails the task with a mismatch error
\* carrying that iteration index; all earlier iterations compared equal,
\* nothing is performed by the task afterwards and the progress counter is
\* not incremented.  With a candidate whose squeeze returns 32 zero bytes the
\* failure is at iteration 0 and the task never returns Ok.
C2_FailsAtFirstMismatch ==
    \A w \in Workers :
        /\ \A k \in DOMAIN log[w] :
              (log[w][k].ev = "digest" /\ ~log[w][k].ok /\ pc[w] # "cmp") =>
                  /\ Len(log[w]) = k + 1
                  /\ log[w][k + 1] = Event("cmp", log[w][k].it, FALSE)
                  /\ pc[w] = "failed"
                  /\ task_result[w].kind = "Mismatch"
                  /\ task_result[w].iteration = log[w][k].it
                  /\ pb[w].pos = log[w][k].it
                  /\ pb[w].msg # "DONE"
                  /\ \A j \in 0..(log[w][k].it - 1) :
                        \E m \in 1..(k - 1) :
                            /\ log[w][m] = Event("digest", j, TRUE)
                            /\ log[w][m + 1] = Event("cmp", j, TRUE)
        /\ (candidate = "zero" /\ CountEv(w, "cmp", TRUE) + CountEv(w, "cmp", FALSE) > 0) =>
              /\ task_result[w].kind = "Mismatch"
              /\ task_result[w].iteration = 0
        /\ (candidate = "zero" /\ num_hashes > 0) => task_result[w].kind # "Ok"

C2_Witness ==
    \E w \in Workers :
        /\ pc[w] = "failed"
        /\ task_result[w].kind = "Mismatch"
        /\ task_result[w].iteration = 1
        /\ candidate = "leaky"

\* C3: the input carried by a mismatch error is the hexadecimal encoding of
\* exactly the bytes hashed by both backends in the failing iteration.
C3_ReportedInputIsHashedInput ==
    [][\A w \in Workers :
          (pc[w] = "cmp" /\ pc'[w] = "failed") =>
              /\ task_result'[w].kind = "Mismatch"
              /\ task_result'[w].input = HexEncode(InSlice(bytes[w], in_len[w]))]_vars

C5_FatalErrorNamesIterationAndInput ==
    /\ [][\A w \in Workers :
            (pc[w] \in RunningPcs /\ pc'[w] = "failed") =>
                /\ {"iteration", "input"} \subseteq DOMAIN task_result'[w]
                /\ task_result'[w].iteration = iter[w]
                /\ task_result'[w].input = HexEncode(InSlice(bytes[w], in_len[w]))]_vars
    /\ []((main_pc = "returned" /\ main_result.kind \in {"Mismatch", "ExecutionFault"}) =>
            /\ {"iteration", "input"} \subseteq DOMAIN main_result
            /\ \E w \in Workers : pc[w] = "failed" /\ task_result[w] = main_result)

\* C6: an absorb call that is not a success, or a squeeze call that fails,
\* returns no call output or returns undecodable output, ends the task as
\* failed with an execution fault in that iteration: the call is made once,
\* no comparison is made for the iteration and nothing follows.
C6_ExecutionFaultEndsTask ==
    \A w \in Workers :
        \A k \in DOMAIN log[w] :
            (log[w][k].ev \in {"absorb", "squeeze"} /\ ~log[w][k].ok) =>
                /\ k = Len(log[w])
                /\ pc[w] = "failed"
                /\ task_result[w].kind = "ExecutionFault"
                /\ task_result[w].call = log[w][k].ev
                /\ pb[w].pos = log[w][k].it
                /\ \A m \in DOMAIN log[w] :
                      /\ log[w][m].it = log[w][k].it => log[w][m].ev # "cmp"
                      /\ (log[w][m].it = log[w][k].it /\ log[w][m].ev = log[w][k].ev)
                            => m = k
                      /\ log[w][m].it <= log[w][k].it

C6_Witness ==
    \E w \in Workers :
        /\ pc[w] = "failed"
        /\ task_result[w] = ExecutionError("squeeze", "BadReturn")
        /\ pb[w].pos = 1

\* C7: the error main returns is the error, unmodified, of the first task in
\* completion order that failed, and main takes no completion after it.
C7_FirstFailureSurfaces ==
    (MainFailed /\ thread_count >= 1) =>
        \E k \in DOMAIN completed :
            /\ task_result[completed[k]].kind # "Ok"
            /\ \A j \in 1..(k - 1) : task_result[completed[j]].kind = "Ok"
            /\ main_result = task_result[completed[k]]
            /\ joined = k

C7_Witness ==
    /\ MainFailed
    /\ Len(completed) = 2
    /\ task_result[completed[1]].kind = "Ok"
    /\ task_result[completed[2]] = ExecutionError("squeeze", "Revert")
    /\ main_result = task_result[completed[2]]
    /\ joined = 2

\* C8 (as stated): the step by which main stops waiting changes the state of
\* no task, running or not yet started.
C8_ReturnChangesNoTask ==
    [][(main_pc = "join" /\ main_pc' = "returned") =>
          \A w \in Workers : TaskState(w)' = TaskState(w)]_vars

\* C8 (amended): no step of main changes the state of a task that has started
\* running, and after main has returned every running task can still take
\* its next step; a task that was spawned but has not started when main
\* returns a failure is aborted by the drop of the JoinSet and never runs.
C8_ReturnLeavesStartedTasks ==
    /\ [][(main_vars' # main_vars) =>
            \A w \in Workers :
                /\ pc[w] \notin {"unspawned", "spawned"} =>
                      TaskState(w)' = TaskState(w)
                /\ (pc[w] = "spawned" /\ main_pc' = "returned") =>
                      /\ main_result'.kind # "Ok"
                      /\ pc'[w] = "aborted"]_vars
    /\ [](\A w \in Workers :
            /\ (main_pc = "returned" /\ pc[w] \in RunningPcs) => ENABLED FuzzStep(w)
            /\ pc[w] = "aborted" => (log[w] = <<>> /\ ~ENABLED FuzzStep(w)))

C8_Witness ==
    /\ MainFailed
    /\ joined < Len(completed)
    /\ \E w \in Workers :
          /\ pc[w] = "done"
          /\ pb[w].pos = 1
          /\ completed[Len(completed)] = w

\* C9: every task gets num_hashes = floor(diff_count / thread_count); the
\* remainder is dropped, so a run that succeeds performs exactly
\* thread_count * floor(diff_count / thread_count) <= diff_count iterations.
C9_SharesAreFloor ==
    /\ NumHashes(100000, 4) = 25000
    /\ (main_pc # "start" /\ thread_count >= 1) =>
          /\ num_hashes * thread_count <= diff_count
          /\ diff_count < (num_hashes + 1) * thread_count
          /\ \A w \in Workers :
                /\ pc[w] # "unspawned" => pb[w].length = num_hashes
                /\ CountEv(w, "gen", TRUE) <= num_hashes
    /\ (main_pc = "returned" /\ main_result.kind = "Ok") =>
          LET gens == [w \in Workers |-> CountEv(w, "gen", TRUE)] IN
          /\ \A w \in 1..thread_count : gens[w] = num_hashes
          /\ SumUpTo(gens, MaxThreads) = diff_count - (diff_count % thread_count)

C9_Witness ==
    /\ main_pc = "returned"
    /\ main_result.kind = "Ok"
    /\ thread_count = 2
    /\ diff_count = 3
    /\ CountEv(1, "gen", TRUE) = 1
    /\ CountEv(2, "gen", TRUE) = 1

\* C10: with thread_count = 0 or max_input_bytes = 0 the run is rejected
\* before any task starts: no task is spawned and no task takes a step.
C10_MalformedConfigRejected ==
    (thread_count = 0 \/ max_input_bytes = 0) =>
        /\ \A w \in Workers : pc[w] = "unspawned" /\ log[w] = <<>>
        /\ main_pc = "returned" => main_result.kind \notin {"Ok", "None"}

\* C11: in every iteration the generated input has a length len with
\* 0 <= len < max_input_bytes and lies in the buffer of max_input_bytes
\* bytes; with max_input_bytes = 1 the input of every iteration is the empty
\* byte string, whose two digests are still computed and compared.
C11_InputLengthInRange ==
    \A w \in Workers :
        /\ pc[w] \in {"absorb", "squeeze", "cmp"} =>
              /\ 0 <= in_len[w]
              /\ in_len[w] < max_input_bytes
              /\ Len(bytes[w]) = max_input_bytes
              /\ Len(hash_tiny[w].pre) = in_len[w]
              /\ hash_tiny[w] = Keccak(InSlice(bytes[w], in_len[w]))
        /\ (max_input_bytes = 1 /\ pc[w] \in {"absorb", "squeeze", "cmp"}) =>
              /\ in_len[w] = 0
              /\ hash_tiny[w] = Keccak(<<>>)
        /\ (max_input_bytes = 1 /\ pc[w] = "cmp" /\ candidate # "zero") =>
              hash_evm[w] = Keccak(<<>>)
        /\ (max_input_bytes = 1 /\ pc[w] \in {"loop", "done"}) =>
              /\ CountEv(w, "tiny", TRUE) = pb[w].pos
              /\ CountEv(w, "squeeze", TRUE) = pb[w].pos
              /\ CountEv(w, "cmp", TRUE) = pb[w].pos

C11_Witness ==
    /\ max_input_bytes = 1
    /\ \E w \in Workers :
          /\ pc[w] = "cmp"
          /\ iter[w] = 2
          /\ in_len[w] = 0
          /\ hash_tiny[w] = hash_evm[w]

ProtocolOrder(w) ==
    \A k \in DOMAIN log[w] :
        LET e == log[w][k] IN
        /\ e.ev = "gen" =>
              IF e.it = 0 THEN k = 1
              ELSE k > 1 /\ log[w][k - 1] = Event("cmp", e.it - 1, TRUE)
        /\ e.ev = "absorb" =>
              /\ k > 2
              /\ log[w][k - 1] = Event("tiny", e.it, TRUE)
              /\ log[w][k - 2] = Event("gen", e.it, TRUE)
        /\ e.ev = "squeeze" =>
              /\ k > 1
              /\ log[w][k - 1] = Event("absorb", e.it, TRUE)
        /\ e.ev = "cmp" =>
              /\ k > 2
              /\ log[w][k - 1].ev = "digest"
              /\ log[w][k - 2] = Event("squeeze", e.it, TRUE)
        /\ e.ev \in {"absorb", "squeeze"} =>
              \A m \in DOMAIN log[w] :
                  (log[w][m].ev = e.ev /\ log[w][m].it = e.it) => m = k

\* C13: in every iteration a task makes exactly one absorb call followed by
\* exactly one squeeze call, absorbing the input it gave to the reference
\* hasher; squeeze follows a successful absorb of the same iteration, absorb
\* is not repeated without a squeeze in between, and the next iteration
\* begins only after the squeeze and the comparison of the previous one.
C13_IdleAbsorbedIdle ==
    /\ [](\A w \in Workers :
            /\ ProtocolOrder(w)
            /\ pc[w] = "squeeze" =>
                  log[w][Len(log[w])] = Event("absorb", iter[w], TRUE)
            /\ pc[w] = "absorb" =>
                  log[w][Len(log[w])] = Event("tiny", iter[w], TRUE)
            /\ (pc[w] = "loop" /\ iter[w] > 0) =>
                  log[w][Len(log[w])] = Event("cmp", iter[w] - 1, TRUE))
    /\ [][\A w \in Workers :
            (pc[w] = "absorb" /\ pc'[w] = "squeeze" /\ evm[w].deployed) =>
                evm'[w].sponge = evm[w].sponge \o hash_tiny[w].pre]_vars

C13_Witness ==
    \E w \in Workers :
        /\ pc[w] = "squeeze"
        /\ iter[w] = 1
        /\ evm[w].sponge = <<171>>
        /\ CountEv(w, "absorb", TRUE) = 2
        /\ CountEv(w, "squeeze", TRUE) = 1

\* C14: a task sets up its environment once, when it starts, and never
\* redeploys or resets it: the comparison and the start of the next
\* iteration leave the environment as the squeeze call committed it, so the
\* absorb call of iteration i+1 sees exactly that state.
C14_EnvironmentPersists ==
    /\ [][\A w \in Workers :
            /\ (pc[w] = "spawned" /\ pc'[w] = "loop") =>
                  evm'[w] = [deployed |-> code_hex_ok, sponge |-> <<>>]
            /\ (pc[w] \in RunningPcs /\ pc'[w] \in RunningPcs) =>
                  evm'[w].deployed = evm[w].deployed
            /\ (pc[w] \in {"cmp", "loop"} /\ pc'[w] \in RunningPcs) =>
                  evm'[w] = evm[w]
            /\ (pc[w] \in {"absorb", "squeeze"} /\ pc'[w] = pc[w]) =>
                  evm'[w] = evm[w]]_vars
    /\ [](\A w \in Workers :
            pc[w] \in {"unspawned", "spawned"} => (evm[w] = NoEvm /\ log[w] = <<>>))

C14_Witness ==
    /\ candidate = "leaky"
    /\ \E w \in Workers :
          /\ pc[w] = "absorb"
          /\ iter[w] = 1
          /\ evm[w] = [deployed |-> TRUE, sponge |-> <<171>>]

EndedPcs == {"done", "failed", "panicked"}

\* Nothing can take a step any more.
Quiescent ==
    /\ main_pc = "returned"
    /\ \A w \in Workers : pc[w] \notin RunningPcs \cup {"spawned"}

\* What the result of a task that ended says about its iterations.
EndedAsClaimed(w) ==
    /\ pc[w] = "done" =>
          /\ pb[w].pos = num_hashes
          /\ CountEv(w, "cmp", TRUE) = num_hashes
    /\ pc[w] = "failed" =>
          /\ log[w][Len(log[w])].it < num_hashes
          /\ pb[w].pos = log[w][Len(log[w])].it
    /\ pc[w] = "panicked" => (pb[w].pos = 0 /\ 0 < num_hashes)

\* C16 (as stated, for a run with at least one task and a positive
\* max_input_bytes): when the run has come
\* to rest, every task has ended, with Ok after num_hashes iterations or
\* with a failure at an iteration below num_hashes, and main has returned
\* Ok after all tasks succeeded or the failure of a task it observed.
C16_AllTasksEndOkOrFailed ==
    (Quiescent /\ thread_count >= 1 /\ max_input_bytes >= 1) =>
        /\ \A w \in 1..thread_count : pc[w] \in EndedPcs /\ EndedAsClaimed(w)
        /\ \/ /\ main_result.kind = "Ok"
              /\ \A w \in 1..thread_count : pc[w] = "done"
           \/ \E w \in 1..thread_count :
                  /\ pc[w] \in {"failed", "panicked"}
                  /\ main_result = task_result[w]

\* C16 (amended): under fair scheduling main eventually returns and every
\* task that has started eventually ends, with Ok after num_hashes
\* iterations or with a failure at an iteration below num_hashes; a task
\* that has not started when main returns a failure is aborted instead.
\* main returns Ok after all tasks succeeded, the failure of a task it
\* observed, or, with thread_count = 0, the panic of the division.
C16_StartedTasksTerminate ==
    /\ <>Quiescent
    /\ [][\A w \in Workers :
            /\ pc[w] \in RunningPcs => pc'[w] \in RunningPcs \cup EndedPcs
            /\ pc[w] = "spawned" =>
                  pc'[w] \in RunningPcs \cup EndedPcs \cup {"spawned", "aborted"}]_vars
    /\ [](\A w \in Workers :
            /\ EndedAsClaimed(w)
            /\ pc[w] = "aborted" => (MainFailed /\ log[w] = <<>>))
    /\ [](main_pc = "returned" =>
            \/ /\ main_result.kind = "Ok"
               /\ \A w \in 1..thread_count : pc[w] = "done"
            \/ \E w \in 1..thread_count :
                   /\ pc[w] \in {"failed", "panicked"}
                   /\ main_result = task_result[w]
            \/ /\ thread_count = 0
               /\ main_result = PanicError("attempt to divide by zero"))

C16_Witness ==
    /\ Quiescent
    /\ thread_count = 2
    /\ pc[1] = "done"
    /\ pb[1].pos = 1
    /\ pc[2] = "failed"
    /\ task_result[2].kind = "ExecutionFault"
    /\ main_result = task_result[2]

\* C17: the position of a task's progress bar is the number of its
\* iterations whose digests compared equal; it never exceeds num_hashes, it
\* is the failing iteration when the task has failed, and the message DONE
\* is set exactly when the task has returned Ok, with the position at
\* num_hashes.
C17_ProgressCountsEqualDigests ==
    \A w \in Workers :
        /\ pb[w].pos = CountEv(w, "cmp", TRUE)
        /\ pb[w].pos <= num_hashes
        /\ pc[w] = "failed" => pb[w].pos = log[w][Len(log[w])].it
        /\ pc[w] = "panicked" => pb[w].pos = 0
        /\ pb[w].msg = "DONE" <=> pc[w] = "done"
        /\ pc[w] = "done" => pb[w].pos = num_hashes

C17_Witness ==
    /\ pc[1] = "failed"
    /\ task_result[1].kind = "Mismatch"
    /\ task_result[1].iteration = 1
    /\ pb[1].pos = 1
    /\ pb[1].msg # "DONE"

\* C18: with 1 <= thread_count and diff_count < thread_count every task gets
\* num_hashes = 0, so no task generates an input, calls absorb or squeeze or
\* compares digests, every task returns Ok, and main returns Ok whatever
\* the candidate is.
C18_ZeroShareRunsNothing ==
    (thread_count >= 1 /\ diff_count < thread_count) =>
        /\ main_pc # "start" => num_hashes = 0
        /\ \A w \in Workers :
              /\ \A k \in DOMAIN log[w] : log[w][k].ev = "done"
              /\ pc[w] \in {"unspawned", "spawned", "loop", "done"}
              /\ pc[w] = "done" => task_result[w] = OkResult
              /\ pb[w].pos = 0
        /\ main_pc = "returned" =>
              /\ main_result = OkResult
              /\ \A w \in 1..thread_count : pc[w] = "done"

C18_Witness ==
    /\ candidate = "zero"
    /\ code_hex_ok
    /\ thread_count = 2
    /\ diff_count = 1
    /\ max_input_bytes = 2
    /\ main_pc = "returned"
    /\ main_result = OkResult
    /\ log[1] = <<Event("done", 0, TRUE)>>
    /\ log[2] = <<Event("done", 0, TRUE)>>

\* C19: when deploy_contract fails because the code blob is not
\* hex-decodable, no task returns Ok and no task runs any part of an
\* iteration (its history stays empty).
C19_DeployFailureIsFatal ==
    ~code_hex_ok =>
        \A w \in Workers :
            /\ task_result[w] # OkResult
            /\ pc[w] # "done"
            /\ log[w] = <<>>
====
